---- MODULE Spec2Model ----
(***************************************************************************)
(* Cache-aside key-value server: an LRU cache (LRUCache) in front of a     *)
(* PostgreSQL table (Database), driven by the PUT / GET / DELETE handlers  *)
(* of main().  Each HTTP worker thread runs one handler at a time; the     *)
(* handlers interleave at their calls into the cache and the database.     *)
(***************************************************************************)
EXTENDS Integers, Sequences, FiniteSets, TLC

VARIABLES
    cap,            \* LRUCache::cap   : the capacity, fixed at construction
    cache,          \* LRUCache::cache : list of nodes, front = most recently used
    map,            \* LRUCache::map   : key -> list node (iterator)
    mtx,            \* LRUCache::mtx   : the thread that owns it, or NoThread
    db,             \* table kv        : key -> value, NoValue when there is no row
    cache_hits,     \* std::atomic<uint64_t> cache_hits
    cache_misses,   \* std::atomic<uint64_t> cache_misses
    pc,             \* per thread: position in the handler it runs
    op,             \* per thread: the handler it runs
    key,            \* per thread: local `key`
    value,          \* per thread: local `value`
    res,            \* per thread: the response of the handler
    stat,           \* per thread: locals h, m, hit_rate of the /stats handler
    committed,      \* history: every <<key, value>> ever committed to the table
    hist,           \* history: the last requests completed by a sequential client
    calls           \* history: the calls a single caller made on the cache

vars == <<cap, cache, map, mtx, db, cache_hits, cache_misses, pc, op, key, value,
          res, stat, committed, hist, calls>>

---------------------------------------------------------------------------
\* Bounds of the model.

\* largest capacity a cache is constructed with (LRUCache cache(1000) in
\* main, scaled down)
MaxCap == 3
\* how many GET requests are started in one run (bounds the two counters)
MaxReads == 2
\* how many requests the sequential client's history keeps
HistLen == 3
\* how many calls the single cache caller makes
MaxCalls == 5

Keys == {"a", "b", "c"}
\* the keys the HTTP clients ask for
ReqKeys == {"a", "b"}
Values == {"v1", "v2"}
Threads == {"t1", "t2"}

NoValue == "none"
NoThread == "nobody"
\* h, m and hit_rate before the /stats handler has set them
NoStat == [h |-> 0, m |-> 0, hit_rate |-> 0]

---------------------------------------------------------------------------
\* std::list / std::unordered_map primitives used by LRUCache.

EmptyMap == [k \in {} |-> 0]

HasNode(c, n) == \E i \in 1 .. Len(c) : c[i].node = n

NodePos(c, n) == CHOOSE i \in 1 .. Len(c) : c[i].node = n

RemoveAt(c, i) == SubSeq(c, 1, i - 1) \o SubSeq(c, i + 1, Len(c))

\* cache.erase(it)
EraseNode(c, n) == IF HasNode(c, n) THEN RemoveAt(c, NodePos(c, n)) ELSE c

\* cache.splice(cache.begin(), cache, it)
Splice(c, n) ==
    IF HasNode(c, n) THEN <<c[NodePos(c, n)]>> \o RemoveAt(c, NodePos(c, n)) ELSE c

\* the node cache.emplace_front(key, value) allocates.  A node keeps its
\* address while it is in the list, and the address itself is never looked
\* at, so a node is named after the key it was allocated for.
NewNode(k, v) == [node |-> k, first |-> k, second |-> v]

\* map[key] = it
MapSet(m, k, n) == [x \in DOMAIN m \cup {k} |-> IF x = k THEN n ELSE m[x]]

\* map.erase(key)
MapErase(m, k) == [x \in DOMAIN m \ {k} |-> m[x]]

---------------------------------------------------------------------------
\* LRUCache's three operations, as functions of the cache state.

\* LRUCache::get written with map[key] in place of map.find(key): a miss
\* leaves an index entry behind.
LRUGet_InsertsOnMiss(c, m, k, val) ==
    IF k \notin DOMAIN m
    THEN [cache |-> c, map |-> MapSet(m, k, k), ret |-> FALSE, value |-> val]
    ELSE LET c2 == Splice(c, m[k])
         IN  [cache |-> c2, map |-> m, ret |-> TRUE,
              value |-> IF HasNode(c2, m[k]) THEN c2[NodePos(c2, m[k])].second
                        ELSE val]

\* LRUCache::get that answers a hit without the splice: the entry keeps its
\* place in the list.
LRUGet_NoSplice(c, m, k, val) ==
    IF k \notin DOMAIN m
    THEN [cache |-> c, map |-> m, ret |-> FALSE, value |-> val]
    ELSE [cache |-> c, map |-> m, ret |-> TRUE,
          value |-> IF HasNode(c, m[k]) THEN c[NodePos(c, m[k])].second
                    ELSE val]

\* LRUCache::get written with the range overload of splice,
\* cache.splice(cache.begin(), cache, it->second, cache.end()): the entry
\* and everything behind it move to the front.
LRUGet_SpliceRange(c, m, k, val) ==
    IF k \notin DOMAIN m
    THEN [cache |-> c, map |-> m, ret |-> FALSE, value |-> val]
    ELSE LET p == NodePos(c, m[k])
             c2 == IF HasNode(c, m[k])
                   THEN SubSeq(c, p, Len(c)) \o SubSeq(c, 1, p - 1)
                   ELSE c
         IN  [cache |-> c2, map |-> m, ret |-> TRUE,
              value |-> IF HasNode(c2, m[k]) THEN c2[NodePos(c2, m[k])].second
                        ELSE val]

\* LRUCache::get(key, value): value is the caller's out-parameter
LRUGet(c, m, k, val) ==
    IF k \notin DOMAIN m
    THEN [cache |-> c, map |-> m, ret |-> FALSE, value |-> val]
    ELSE LET c2 == Splice(c, m[k])
         IN  [cache |-> c2, map |-> m, ret |-> TRUE,
              value |-> IF HasNode(c2, m[k]) THEN c2[NodePos(c2, m[k])].second
                        ELSE val]

\* LRUCache::put that evicts one entry too late (cache.size() > cap + 1).
LRUPut_LateEvict(n, c, m, k, v) ==
    IF k \in DOMAIN m
    THEN LET c1 == IF HasNode(c, m[k])
                   THEN [c EXCEPT ![NodePos(c, m[k])].second = v]
                   ELSE c
         IN  [cache |-> Splice(c1, m[k]), map |-> m]
    ELSE LET c1 == <<NewNode(k, v)>> \o c
             m1 == MapSet(m, k, c1[1].node)
         IN  IF Len(c1) > n + 1
             THEN LET last == c1[Len(c1)].first
                  IN  [cache |-> SubSeq(c1, 1, Len(c1) - 1),
                       map |-> MapErase(m1, last)]
             ELSE [cache |-> c1, map |-> m1]

\* LRUCache::put that overwrites an existing entry without moving it to the
\* front (the splice is missing).
LRUPut_NoRefresh(n, c, m, k, v) ==
    IF k \in DOMAIN m
    THEN LET c1 == IF HasNode(c, m[k])
                   THEN [c EXCEPT ![NodePos(c, m[k])].second = v]
                   ELSE c
         IN  [cache |-> c1, map |-> m]
    ELSE LET c1 == <<NewNode(k, v)>> \o c
             m1 == MapSet(m, k, c1[1].node)
         IN  IF Len(c1) > n
             THEN LET last == c1[Len(c1)].first
                  IN  [cache |-> SubSeq(c1, 1, Len(c1) - 1),
                       map |-> MapErase(m1, last)]
             ELSE [cache |-> c1, map |-> m1]

\* LRUCache::put that moves an existing entry to the front without
\* overwriting its value (the assignment is missing).
LRUPut_NoOverwrite(n, c, m, k, v) ==
    IF k \in DOMAIN m
    THEN [cache |-> Splice(c, m[k]), map |-> m]
    ELSE LET c1 == <<NewNode(k, v)>> \o c
             m1 == MapSet(m, k, c1[1].node)
         IN  IF Len(c1) > n
             THEN LET last == c1[Len(c1)].first
                  IN  [cache |-> SubSeq(c1, 1, Len(c1) - 1),
                       map |-> MapErase(m1, last)]
             ELSE [cache |-> c1, map |-> m1]

\* LRUCache::put that evicts the last list entry without map.erase(last).
LRUPut_KeepsIndex(n, c, m, k, v) ==
    IF k \in DOMAIN m
    THEN LET c1 == IF HasNode(c, m[k])
                   THEN [c EXCEPT ![NodePos(c, m[k])].second = v]
                   ELSE c
         IN  [cache |-> Splice(c1, m[k]), map |-> m]
    ELSE LET c1 == <<NewNode(k, v)>> \o c
             m1 == MapSet(m, k, c1[1].node)
         IN  IF Len(c1) > n
             THEN [cache |-> SubSeq(c1, 1, Len(c1) - 1), map |-> m1]
             ELSE [cache |-> c1, map |-> m1]

\* LRUCache::put(key, value)
LRUPut(n, c, m, k, v) ==
    IF k \in DOMAIN m
    THEN LET c1 == IF HasNode(c, m[k])
                   THEN [c EXCEPT ![NodePos(c, m[k])].second = v]
                   ELSE c
         IN  [cache |-> Splice(c1, m[k]), map |-> m]
    ELSE LET c1 == <<NewNode(k, v)>> \o c
             m1 == MapSet(m, k, c1[1].node)
         IN  IF Len(c1) > n
             THEN LET last == c1[Len(c1)].first
                  IN  [cache |-> SubSeq(c1, 1, Len(c1) - 1),
                       map |-> MapErase(m1, last)]
             ELSE [cache |-> c1, map |-> m1]

\* LRUCache::remove with the test inverted (it == map.end()): a key that is
\* present is left in place.
LRURemove_Inverted(c, m, k) ==
    IF k \notin DOMAIN m
    THEN [cache |-> EraseNode(c, k), map |-> MapErase(m, k)]
    ELSE [cache |-> c, map |-> m]

\* LRUCache::remove(key)
LRURemove(c, m, k) ==
    IF k \in DOMAIN m
    THEN [cache |-> EraseNode(c, m[k]), map |-> MapErase(m, k)]
    ELSE [cache |-> c, map |-> m]

---------------------------------------------------------------------------
\* What an observer sees of the cache.

CacheKeys == {cache[i].first : i \in 1 .. Len(cache)}

CacheValue(k) ==
    IF k \in DOMAIN map /\ HasNode(cache, map[k])
    THEN cache[NodePos(cache, map[k])].second
    ELSE NoValue

---------------------------------------------------------------------------
\* The state after construction: Database's constructor has created the
\* table and the cache is empty.

InitCommon ==
    /\ cache = <<>>
    /\ map = EmptyMap
    /\ mtx = NoThread
    /\ db = [k \in ReqKeys |-> NoValue]
    /\ cache_hits = 0
    /\ cache_misses = 0
    /\ pc = [t \in Threads |-> "idle"]
    /\ op = [t \in Threads |-> "none"]
    /\ key = [t \in Threads |-> NoValue]
    /\ value = [t \in Threads |-> NoValue]
    /\ res = [t \in Threads |-> "none"]
    /\ stat = [t \in Threads |-> NoStat]
    /\ committed = {}
    /\ hist = <<>>
    /\ calls = <<>>

\* LRUCache cache(n) in main.  With more room than there are keys asked for
\* the cache never evicts, whatever n is: such capacities are represented by
\* the number of keys.
ServerCaps == {n \in 1 .. MaxCap : n <= Cardinality(ReqKeys)}

Init == InitCommon /\ cap \in ServerCaps

locals == <<op, key, value, res, stat>>
shared == <<cap, cache, map, mtx, db, cache_hits, cache_misses, committed>>
ghosts == <<hist, calls>>

\* GET requests that have not yet counted their hit or miss
ReadsInFlight ==
    Cardinality({t \in Threads : pc[t] \in {"get_lock", "get_cache"}})

---------------------------------------------------------------------------
\* A request arrives on an idle worker thread.

\* svr.Put: key = req.matches[1]; value = req.body
StartPutLocals(t, k, v) ==
    /\ pc[t] = "idle"
    /\ pc' = [pc EXCEPT ![t] = "put_db"]
    /\ op' = [op EXCEPT ![t] = "PUT"]
    /\ key' = [key EXCEPT ![t] = k]
    /\ value' = [value EXCEPT ![t] = v]
    /\ UNCHANGED <<res, stat, shared>>

StartPut(t, k, v) == StartPutLocals(t, k, v) /\ UNCHANGED ghosts

\* svr.Get: key = req.matches[1]; std::string value
StartGetLocals(t, k) ==
    /\ pc[t] = "idle"
    /\ cache_hits + cache_misses + ReadsInFlight < MaxReads
    /\ pc' = [pc EXCEPT ![t] = "get_lock"]
    /\ op' = [op EXCEPT ![t] = "GET"]
    /\ key' = [key EXCEPT ![t] = k]
    /\ UNCHANGED <<value, res, stat, shared>>

StartGet(t, k) == StartGetLocals(t, k) /\ UNCHANGED ghosts

\* svr.Delete: key = req.matches[1]
StartDeleteLocals(t, k) ==
    /\ pc[t] = "idle"
    /\ pc' = [pc EXCEPT ![t] = "del_db"]
    /\ op' = [op EXCEPT ![t] = "DELETE"]
    /\ key' = [key EXCEPT ![t] = k]
    /\ UNCHANGED <<value, res, stat, shared>>

StartDelete(t, k) == StartDeleteLocals(t, k) /\ UNCHANGED ghosts

---------------------------------------------------------------------------
\* std::lock_guard<std::mutex> lock(mtx) at the head of get / put / remove.

Lock(t, from, to) ==
    /\ pc[t] = from
    /\ mtx = NoThread
    /\ mtx' = t
    /\ pc' = [pc EXCEPT ![t] = to]
    /\ UNCHANGED <<cap, cache, map, db, cache_hits, cache_misses, committed,
                   locals, ghosts>>

---------------------------------------------------------------------------
\* PUT /kv/key

\* db.put(key, value) returns: the row is upserted.  (audit: whether the
\* history of committed rows is being recorded.)
PutDbStep(t, audit) ==
    /\ pc[t] = "put_db"
    /\ db' = [db EXCEPT ![key[t]] = value[t]]
    /\ committed' = IF audit THEN committed \cup {<<key[t], value[t]>>}
                    ELSE committed
    /\ pc' = [pc EXCEPT ![t] = "put_lock"]
    /\ UNCHANGED <<cap, cache, map, mtx, cache_hits, cache_misses, locals, ghosts>>

PutDb(t) == PutDbStep(t, FALSE)

AuditPutDb(t) == PutDbStep(t, TRUE)

\* The PUT handler with its two calls swapped: cache.put has already run
\* when db.put throws.
PutDbFailStep_CacheFirst(t, audit) ==
    /\ pc[t] = "put_db"
    /\ mtx = NoThread
    /\ LET r == LRUPut(cap, cache, map, key[t], value[t])
       IN  /\ cache' = r.cache
           /\ map' = r.map
    /\ res' = [res EXCEPT ![t] = "exception"]
    /\ pc' = [pc EXCEPT ![t] = "done"]
    /\ UNCHANGED <<cap, mtx, db, committed, cache_hits, cache_misses, op, key,
                   value, stat, ghosts>>

\* db.put(key, value) throws (connection, exec_params or commit fails); when
\* it is commit() that throws, the row may have been written all the same.
\* The exception leaves the handler: cache.put is not reached.
PutDbFailStep(t, audit) ==
    /\ pc[t] = "put_db"
    /\ \E written \in BOOLEAN :
          /\ db' = IF written THEN [db EXCEPT ![key[t]] = value[t]] ELSE db
          /\ committed' = IF written /\ audit
                          THEN committed \cup {<<key[t], value[t]>>}
                          ELSE committed
    /\ res' = [res EXCEPT ![t] = "exception"]
    /\ pc' = [pc EXCEPT ![t] = "done"]
    /\ UNCHANGED <<cap, cache, map, mtx, cache_hits, cache_misses, op, key, value,
                   stat, ghosts>>

PutDbFail(t) == PutDbFailStep(t, FALSE)

AuditPutDbFail(t) == PutDbFailStep(t, TRUE)

\* cache.put(key, value): takes the lock
PutLock(t) == Lock(t, "put_lock", "put_cache")

\* The PUT handler caching the row it reads back from the database in
\* place of the value of its own request.
PutCache_ReadsBack(t) ==
    /\ pc[t] = "put_cache"
    /\ mtx = t
    /\ LET back == IF db[key[t]] # NoValue THEN db[key[t]] ELSE value[t]
           r == LRUPut(cap, cache, map, key[t], back)
       IN  /\ cache' = r.cache
           /\ map' = r.map
    /\ mtx' = NoThread
    /\ res' = [res EXCEPT ![t] = "PUT OK"]
    /\ pc' = [pc EXCEPT ![t] = "done"]
    /\ UNCHANGED <<cap, db, cache_hits, cache_misses, committed, op, key, value,
                   stat, ghosts>>

\* cache.put(key, value) under the lock, then res.set_content("PUT OK")
PutCache(t) ==
    /\ pc[t] = "put_cache"
    /\ mtx = t
    /\ LET r == LRUPut(cap, cache, map, key[t], value[t])
       IN  /\ cache' = r.cache
           /\ map' = r.map
    /\ mtx' = NoThread
    /\ res' = [res EXCEPT ![t] = "PUT OK"]
    /\ pc' = [pc EXCEPT ![t] = "done"]
    /\ UNCHANGED <<cap, db, cache_hits, cache_misses, committed, op, key, value,
                   stat, ghosts>>

---------------------------------------------------------------------------
\* GET /kv/key

\* cache.get(key, value): takes the lock
GetLock(t) == Lock(t, "get_lock", "get_cache")

\* The GET handler counting the miss before it looks into the cache: a hit
\* adds to both counters.
GetCache_CountsMiss(t) ==
    /\ pc[t] = "get_cache"
    /\ mtx = t
    /\ LET r == LRUGet(cache, map, key[t], value[t])
       IN  /\ cache' = r.cache
           /\ map' = r.map
           /\ value' = [value EXCEPT ![t] = r.value]
           /\ IF r.ret
              THEN /\ cache_hits' = cache_hits + 1
                   /\ res' = [res EXCEPT ![t] = "CACHE HIT"]
                   /\ pc' = [pc EXCEPT ![t] = "done"]
              ELSE /\ pc' = [pc EXCEPT ![t] = "get_db"]
                   /\ UNCHANGED <<cache_hits, res>>
    /\ cache_misses' = cache_misses + 1
    /\ mtx' = NoThread
    /\ UNCHANGED <<cap, db, committed, op, key, stat, ghosts>>

\* The GET handler holding the cache lock over its whole miss path: the lock
\* taken for cache.get is still held when db.get is called.
GetCache_KeepsLock(t) ==
    /\ pc[t] = "get_cache"
    /\ mtx = t
    /\ LET r == LRUGet(cache, map, key[t], value[t])
       IN  /\ cache' = r.cache
           /\ map' = r.map
           /\ value' = [value EXCEPT ![t] = r.value]
           /\ IF r.ret
              THEN /\ cache_hits' = cache_hits + 1
                   /\ res' = [res EXCEPT ![t] = "CACHE HIT"]
                   /\ pc' = [pc EXCEPT ![t] = "done"]
                   /\ mtx' = NoThread
                   /\ UNCHANGED cache_misses
              ELSE /\ cache_misses' = cache_misses + 1
                   /\ pc' = [pc EXCEPT ![t] = "get_db"]
                   /\ UNCHANGED <<cache_hits, res, mtx>>
    /\ UNCHANGED <<cap, db, committed, op, key, stat, ghosts>>

\* cache.get(key, value) under the lock; then, on a hit, cache_hits++ and
\* res.set_content("CACHE HIT: " + value); on a miss, cache_misses++
GetCache(t) ==
    /\ pc[t] = "get_cache"
    /\ mtx = t
    /\ LET r == LRUGet(cache, map, key[t], value[t])
       IN  /\ cache' = r.cache
           /\ map' = r.map
           /\ value' = [value EXCEPT ![t] = r.value]
           /\ IF r.ret
              THEN /\ cache_hits' = cache_hits + 1
                   /\ res' = [res EXCEPT ![t] = "CACHE HIT"]
                   /\ pc' = [pc EXCEPT ![t] = "done"]
                   /\ UNCHANGED cache_misses
              ELSE /\ cache_misses' = cache_misses + 1
                   /\ pc' = [pc EXCEPT ![t] = "get_db"]
                   /\ UNCHANGED <<cache_hits, res>>
    /\ mtx' = NoThread
    /\ UNCHANGED <<cap, db, committed, op, key, stat, ghosts>>

\* db.get(key, value) returns true: the row's value is copied out
GetDbFound(t) ==
    /\ pc[t] = "get_db"
    /\ db[key[t]] # NoValue
    /\ value' = [value EXCEPT ![t] = db[key[t]]]
    /\ pc' = [pc EXCEPT ![t] = "fill_lock"]
    /\ UNCHANGED <<shared, op, key, res, stat, ghosts>>

\* The GET handler ignoring what db.get returns: the empty `value` of a key
\* without a row goes on to cache.put.
GetDbNotFound_IgnoresResult(t) ==
    /\ pc[t] = "get_db"
    /\ db[key[t]] = NoValue
    /\ pc' = [pc EXCEPT ![t] = "fill_lock"]
    /\ UNCHANGED <<shared, locals, ghosts>>

\* db.get(key, value) returns false: 404 "Not found"
GetDbNotFound(t) ==
    /\ pc[t] = "get_db"
    /\ db[key[t]] = NoValue
    /\ res' = [res EXCEPT ![t] = "Not found"]
    /\ pc' = [pc EXCEPT ![t] = "done"]
    /\ UNCHANGED <<shared, op, key, value, stat, ghosts>>

\* Database::get catching the exception and returning false: a failed query
\* is answered as a missing row.
GetDbFail_AsNotFound(t) ==
    /\ pc[t] = "get_db"
    /\ res' = [res EXCEPT ![t] = "Not found"]
    /\ pc' = [pc EXCEPT ![t] = "done"]
    /\ UNCHANGED <<shared, op, key, value, stat, ghosts>>

\* db.get(key, value) throws: the exception leaves the handler
GetDbFail(t) ==
    /\ pc[t] = "get_db"
    /\ res' = [res EXCEPT ![t] = "exception"]
    /\ pc' = [pc EXCEPT ![t] = "done"]
    /\ UNCHANGED <<shared, op, key, value, stat, ghosts>>

\* cache.put(key, value) of the read-through fill: takes the lock
FillLock(t) == Lock(t, "fill_lock", "fill_cache")

\* The GET handler without its read-through fill: "DB HIT" is answered and
\* the cache is left as it was.
FillCache_NoFill(t) ==
    /\ pc[t] = "fill_cache"
    /\ mtx = t
    /\ mtx' = NoThread
    /\ res' = [res EXCEPT ![t] = "DB HIT"]
    /\ pc' = [pc EXCEPT ![t] = "done"]
    /\ UNCHANGED <<cap, cache, map, db, cache_hits, cache_misses, committed,
                   op, key, value, stat, ghosts>>

\* cache.put(key, value) under the lock, then res.set_content("DB HIT: " + value)
FillCache(t) ==
    /\ pc[t] = "fill_cache"
    /\ mtx = t
    /\ LET r == LRUPut(cap, cache, map, key[t], value[t])
       IN  /\ cache' = r.cache
           /\ map' = r.map
    /\ mtx' = NoThread
    /\ res' = [res EXCEPT ![t] = "DB HIT"]
    /\ pc' = [pc EXCEPT ![t] = "done"]
    /\ UNCHANGED <<cap, db, cache_hits, cache_misses, committed, op, key, value,
                   stat, ghosts>>

---------------------------------------------------------------------------
\* DELETE /kv/key

\* Database::remove without w.commit(): the transaction is rolled back and
\* the row stays.
DeleteDb_NoCommit(t) ==
    /\ pc[t] = "del_db"
    /\ pc' = [pc EXCEPT ![t] = "del_lock"]
    /\ UNCHANGED <<shared, locals, ghosts>>

\* db.remove(key) returns: the row, if any, is deleted
DeleteDb(t) ==
    /\ pc[t] = "del_db"
    /\ db' = [db EXCEPT ![key[t]] = NoValue]
    /\ pc' = [pc EXCEPT ![t] = "del_lock"]
    /\ UNCHANGED <<cap, cache, map, mtx, cache_hits, cache_misses, committed,
                   locals, ghosts>>

\* The DELETE handler catching the exception of db.remove and going on to
\* cache.remove and "DELETE OK".
DeleteDbFail_Swallowed(t) ==
    /\ pc[t] = "del_db"
    /\ pc' = [pc EXCEPT ![t] = "del_lock"]
    /\ UNCHANGED <<shared, locals, ghosts>>

\* db.remove(key) throws; when it is commit() that throws, the row may have
\* been deleted all the same.  cache.remove is not reached.
DeleteDbFail(t) ==
    /\ pc[t] = "del_db"
    /\ \E deleted \in BOOLEAN :
          db' = IF deleted THEN [db EXCEPT ![key[t]] = NoValue] ELSE db
    /\ res' = [res EXCEPT ![t] = "exception"]
    /\ pc' = [pc EXCEPT ![t] = "done"]
    /\ UNCHANGED <<cap, cache, map, mtx, cache_hits, cache_misses, committed, op,
                   key, value, stat, ghosts>>

\* cache.remove(key): takes the lock
DeleteLock(t) == Lock(t, "del_lock", "del_cache")

\* LRUCache::remove written with mtx.lock() / mtx.unlock() in place of the
\* lock_guard, and returning early, without the unlock, when the key is not
\* in the index.
DeleteCache_LeaksLock(t) ==
    /\ pc[t] = "del_cache"
    /\ mtx = t
    /\ LET r == LRURemove(cache, map, key[t])
       IN  /\ cache' = r.cache
           /\ map' = r.map
    /\ mtx' = IF key[t] \in DOMAIN map THEN NoThread ELSE t
    /\ res' = [res EXCEPT ![t] = "DELETE OK"]
    /\ pc' = [pc EXCEPT ![t] = "done"]
    /\ UNCHANGED <<cap, db, cache_hits, cache_misses, committed, op, key, value,
                   stat, ghosts>>

\* cache.remove(key) under the lock, then res.set_content("DELETE OK")
DeleteCache(t) ==
    /\ pc[t] = "del_cache"
    /\ mtx = t
    /\ LET r == LRURemove(cache, map, key[t])
       IN  /\ cache' = r.cache
           /\ map' = r.map
    /\ mtx' = NoThread
    /\ res' = [res EXCEPT ![t] = "DELETE OK"]
    /\ pc' = [pc EXCEPT ![t] = "done"]
    /\ UNCHANGED <<cap, db, cache_hits, cache_misses, committed, op, key, value,
                   stat, ghosts>>

---------------------------------------------------------------------------
\* GET /stats

\* digits std::to_string(double) prints after the point, as a power of ten
Micro == 1000000

\* hit_rate computed from integers (h / total * 100): the quotient is
\* truncated before it is scaled.
HitRate_IntDiv(h, m) ==
    IF h + m > 0 THEN ((h \div (h + m)) * 100) * Micro ELSE 0

\* double hit_rate = (total > 0) ? (double(h) * 100.0 / total) : 0.0, as
\* std::to_string(hit_rate) prints it: rounded to six decimals.  The value is
\* in millionths of a percent.
HitRate(h, m) ==
    IF h + m > 0
    THEN (2 * h * 100 * Micro + (h + m)) \div (2 * (h + m))
    ELSE 0

\* svr.Get("/stats")
StartStats(t) ==
    /\ pc[t] = "idle"
    /\ pc' = [pc EXCEPT ![t] = "stats_h"]
    /\ op' = [op EXCEPT ![t] = "STATS"]
    /\ UNCHANGED <<key, value, res, stat, shared, ghosts>>

\* uint64_t h = cache_hits.load()
StatsLoadHits(t) ==
    /\ pc[t] = "stats_h"
    /\ stat' = [stat EXCEPT ![t].h = cache_hits]
    /\ pc' = [pc EXCEPT ![t] = "stats_m"]
    /\ UNCHANGED <<op, key, value, res, shared, ghosts>>

\* uint64_t m = cache_misses.load(); total; hit_rate; res.set_content(body)
StatsLoadMisses(t) ==
    /\ pc[t] = "stats_m"
    /\ stat' = [stat EXCEPT ![t].m = cache_misses,
                            ![t].hit_rate = HitRate(stat[t].h, cache_misses)]
    /\ res' = [res EXCEPT ![t] = "STATS"]
    /\ pc' = [pc EXCEPT ![t] = "done"]
    /\ UNCHANGED <<op, key, value, shared, ghosts>>

---------------------------------------------------------------------------
\* The response is sent and the worker thread takes the next request.

ReturnLocals(t) ==
    /\ pc[t] = "done"
    /\ pc' = [pc EXCEPT ![t] = "idle"]
    /\ op' = [op EXCEPT ![t] = "none"]
    /\ key' = [key EXCEPT ![t] = NoValue]
    /\ value' = [value EXCEPT ![t] = NoValue]
    /\ res' = [res EXCEPT ![t] = "none"]
    /\ stat' = [stat EXCEPT ![t] = NoStat]
    /\ UNCHANGED shared

Return(t) == ReturnLocals(t) /\ UNCHANGED ghosts

---------------------------------------------------------------------------
\* Concurrent clients: every worker thread serves requests independently.

Next ==
    \E t \in Threads :
        \/ \E k \in ReqKeys, v \in Values : StartPut(t, k, v)
        \/ \E k \in ReqKeys : StartGet(t, k)
        \/ \E k \in ReqKeys : StartDelete(t, k)
        \/ PutDb(t) \/ PutDbFail(t) \/ PutLock(t) \/ PutCache(t)
        \/ GetLock(t) \/ GetCache(t)
        \/ GetDbFound(t) \/ GetDbNotFound(t) \/ GetDbFail(t)
        \/ FillLock(t) \/ FillCache(t)
        \/ DeleteDb(t) \/ DeleteDbFail(t) \/ DeleteLock(t) \/ DeleteCache(t)
        \/ Return(t)

Spec == Init /\ [][Next]_vars

---------------------------------------------------------------------------
\* The same server with the history of committed rows recorded.

NextAudit ==
    \E t \in Threads :
        \/ \E k \in ReqKeys, v \in Values : StartPut(t, k, v)
        \/ \E k \in ReqKeys : StartGet(t, k)
        \/ \E k \in ReqKeys : StartDelete(t, k)
        \/ AuditPutDb(t) \/ AuditPutDbFail(t) \/ PutLock(t) \/ PutCache(t)
        \/ GetLock(t) \/ GetCache(t)
        \/ GetDbFound(t) \/ GetDbNotFound(t) \/ GetDbFail(t)
        \/ FillLock(t) \/ FillCache(t)
        \/ DeleteDb(t) \/ DeleteDbFail(t) \/ DeleteLock(t) \/ DeleteCache(t)
        \/ Return(t)

SpecAudit == Init /\ [][NextAudit]_vars

---------------------------------------------------------------------------
\* The server with its /stats handler.

NextStats ==
    \E t \in Threads :
        \/ \E k \in ReqKeys, v \in Values : StartPut(t, k, v)
        \/ \E k \in ReqKeys : StartGet(t, k)
        \/ \E k \in ReqKeys : StartDelete(t, k)
        \/ StartStats(t) \/ StatsLoadHits(t) \/ StatsLoadMisses(t)
        \/ PutDb(t) \/ PutDbFail(t) \/ PutLock(t) \/ PutCache(t)
        \/ GetLock(t) \/ GetCache(t)
        \/ GetDbFound(t) \/ GetDbNotFound(t) \/ GetDbFail(t)
        \/ FillLock(t) \/ FillCache(t)
        \/ DeleteDb(t) \/ DeleteDbFail(t) \/ DeleteLock(t) \/ DeleteCache(t)
        \/ Return(t)

SpecStats == Init /\ [][NextStats]_vars

---------------------------------------------------------------------------
\* A sequential client and a database that does not fail: a request is sent
\* only when every earlier one has been answered.  hist keeps the last
\* HistLen requests: what the client asked, what the cache, the table and the
\* counters held when it asked, and what it was answered.

AllIdle == \A t \in Threads : pc[t] = "idle"

Push(h, r) == IF Len(h) < HistLen THEN Append(h, r) ELSE Append(Tail(h), r)

Request(o, k, v) ==
    [op |-> o, key |-> k, value |-> v, res |-> "pending",
     cached0 |-> CacheValue(k), stored0 |-> db[k],
     hits0 |-> cache_hits, misses0 |-> cache_misses]

Answered(r, t) ==
    [op |-> r.op, key |-> r.key, value |-> value[t], res |-> res[t],
     cached0 |-> NoValue, stored0 |-> NoValue, hits0 |-> 0, misses0 |-> 0]

SeqStartPut(t, k, v) ==
    /\ AllIdle
    /\ StartPutLocals(t, k, v)
    /\ hist' = Push(hist, Request("PUT", k, v))
    /\ UNCHANGED calls

SeqStartGet(t, k) ==
    /\ AllIdle
    /\ StartGetLocals(t, k)
    /\ hist' = Push(hist, Request("GET", k, NoValue))
    /\ UNCHANGED calls

SeqStartDelete(t, k) ==
    /\ AllIdle
    /\ StartDeleteLocals(t, k)
    /\ hist' = Push(hist, Request("DELETE", k, NoValue))
    /\ UNCHANGED calls

SeqReturn(t) ==
    /\ ReturnLocals(t)
    /\ hist' = [hist EXCEPT ![Len(hist)] = Answered(hist[Len(hist)], t)]
    /\ UNCHANGED calls

NextSeq ==
    \E t \in Threads :
        \/ \E k \in ReqKeys, v \in Values : SeqStartPut(t, k, v)
        \/ \E k \in ReqKeys : SeqStartGet(t, k)
        \/ \E k \in ReqKeys : SeqStartDelete(t, k)
        \/ PutDb(t) \/ PutLock(t) \/ PutCache(t)
        \/ GetLock(t) \/ GetCache(t)
        \/ GetDbFound(t) \/ GetDbNotFound(t)
        \/ FillLock(t) \/ FillCache(t)
        \/ DeleteDb(t) \/ DeleteLock(t) \/ DeleteCache(t)
        \/ SeqReturn(t)

SpecSeq == Init /\ [][NextSeq]_vars

---------------------------------------------------------------------------
\* A single caller of the cache alone: get, put and remove called one after
\* the other on a cache of any capacity.  calls keeps every call made, with
\* what get returned.

CallGet(k) ==
    /\ Len(calls) < MaxCalls
    /\ mtx = NoThread
    /\ LET r == LRUGet(cache, map, k, NoValue)
       IN  /\ cache' = r.cache
           /\ map' = r.map
           /\ calls' = Append(calls, [op |-> "get", key |-> k,
                                      value |-> r.value, ret |-> r.ret])
    /\ UNCHANGED <<cap, mtx, db, cache_hits, cache_misses, committed, pc,
                   locals, hist>>

CallPut(k, v) ==
    /\ Len(calls) < MaxCalls
    /\ mtx = NoThread
    /\ LET r == LRUPut(cap, cache, map, k, v)
       IN  /\ cache' = r.cache
           /\ map' = r.map
    /\ calls' = Append(calls, [op |-> "put", key |-> k, value |-> v,
                               ret |-> TRUE])
    /\ UNCHANGED <<cap, mtx, db, cache_hits, cache_misses, committed, pc,
                   locals, hist>>

CallRemove(k) ==
    /\ Len(calls) < MaxCalls
    /\ mtx = NoThread
    /\ LET r == LRURemove(cache, map, k)
       IN  /\ cache' = r.cache
           /\ map' = r.map
    /\ calls' = Append(calls, [op |-> "remove", key |-> k, value |-> NoValue,
                               ret |-> TRUE])
    /\ UNCHANGED <<cap, mtx, db, cache_hits, cache_misses, committed, pc,
                   locals, hist>>

NextCache ==
    \/ \E k \in Keys : CallGet(k)
    \/ \E k \in Keys, v \in Values : CallPut(k, v)
    \/ \E k \in Keys : CallRemove(k)

\* LRUCache(capacity) with any capacity; a capacity above the number of
\* keys never evicts and behaves as a capacity equal to it
CacheCaps == {n \in 1 .. MaxCap : n <= Cardinality(Keys)}

InitCache == InitCommon /\ cap \in CacheCaps

SpecCache == InitCache /\ [][NextCache]_vars

---------------------------------------------------------------------------
\* Properties.

\* C1: in every reachable state, whatever the interleaving of the handlers'
\* cache calls, the cache holds at most cap entries (in its list and in its
\* index).
C1_SizeWithinCap ==
    /\ Len(cache) <= cap
    /\ Cardinality(DOMAIN map) <= cap

\* C1 witness: capacity 1, one thread has just put "a" and the other has
\* just filled "b" from the table; only one of the two is still cached.
C1_Witness ==
    /\ cap = 1
    /\ Len(cache) = 1
    /\ \E t, u \in Threads :
          /\ pc[t] = "done" /\ res[t] = "PUT OK" /\ key[t] = "a"
          /\ pc[u] = "done" /\ res[u] = "DB HIT" /\ key[u] = "b"

\* The put calls since the last get or remove (or since construction).
PutRun ==
    LET n == Len(calls)
        start == IF \E i \in 1 .. n : calls[i].op # "put"
                 THEN 1 + CHOOSE i \in 1 .. n :
                            /\ calls[i].op # "put"
                            /\ \A j \in (i + 1) .. n : calls[j].op = "put"
                 ELSE 1
    IN  SubSeq(calls, start, n)

RunKeys(run) == {run[i].key : i \in 1 .. Len(run)}

\* index of the last put of k in the run
LastPutOf(run, k) ==
    CHOOSE i \in 1 .. Len(run) :
        /\ run[i].key = k
        /\ \A j \in (i + 1) .. Len(run) : run[j].key # k

\* the n keys of the run whose last put is most recent
MostRecent(run, n) ==
    {k \in RunKeys(run) :
        Cardinality({j \in RunKeys(run) :
                        LastPutOf(run, j) > LastPutOf(run, k)}) < n}

\* C2: after a run of put calls that touches more than cap distinct keys,
\* the cache holds exactly the cap keys whose last put is most recent, each
\* with the value of its last put.
C2_KeepsMostRecent ==
    Cardinality(RunKeys(PutRun)) > cap =>
        /\ CacheKeys = MostRecent(PutRun, cap)
        /\ DOMAIN map = MostRecent(PutRun, cap)
        /\ \A k \in MostRecent(PutRun, cap) :
              CacheValue(k) = PutRun[LastPutOf(PutRun, k)].value

\* C2 witness: capacity 2, four puts on three keys of which the first key
\* is put again before the third arrives, so that the evicted key is not
\* the first one put.
C2_Witness ==
    /\ cap = 2
    /\ Len(calls) = 4
    /\ \A i \in 1 .. 4 : calls[i].op = "put"
    /\ calls[1].key = "a" /\ calls[2].key = "b"
    /\ calls[3].key = "a" /\ calls[4].key = "c"
    /\ calls[1].value # calls[3].value
    /\ CacheKeys = {"a", "c"}

\* C9: whatever the cache held, a get(k) made right after put(k, v) is a hit
\* that returns v.
C9_PutThenGet ==
    \A i \in 2 .. Len(calls) :
        (calls[i - 1].op = "put" /\ calls[i].op = "get"
            /\ calls[i].key = calls[i - 1].key)
        => (calls[i].ret /\ calls[i].value = calls[i - 1].value)

\* C9 witness: the cache is full of two other keys, then put(k, v), get(k).
C9_Witness ==
    /\ cap = 2
    /\ Len(calls) = 4
    /\ calls[1].op = "put" /\ calls[2].op = "put"
    /\ calls[3].op = "put" /\ calls[4].op = "get"
    /\ Cardinality({calls[1].key, calls[2].key, calls[3].key}) = 3
    /\ calls[4].key = calls[3].key
    /\ calls[4].ret

\* C10: a get on a key that is not in the cache returns false and leaves
\* the list (keys, values, order) and the index as they were.
C10_MissLeavesCache ==
    [][\A k \in Keys :
          (/\ Len(calls') = Len(calls) + 1
           /\ calls'[Len(calls')].op = "get"
           /\ calls'[Len(calls')].key = k
           /\ k \notin DOMAIN map)
          => (/\ ~calls'[Len(calls')].ret
              /\ cache' = cache
              /\ map' = map)]_vars

\* C10 witness: a get that missed while the cache held two other keys.
C10_Witness ==
    /\ Len(calls) > 0
    /\ calls[Len(calls)].op = "get"
    /\ ~calls[Len(calls)].ret
    /\ Len(cache) = 2
    /\ calls[Len(calls)].key \notin CacheKeys

\* C3: when db.put throws in the PUT handler, that step leaves the cache
\* (list with its order, index) as it was, the handler ends there with the
\* exception as its outcome, and it never goes on to cache.put or to the
\* response "PUT OK".
C3_FailedWriteLeavesCache ==
    [][\A t \in Threads :
          /\ (op[t] = "PUT" /\ res[t] # "exception" /\ res'[t] = "exception")
             => (/\ pc[t] = "put_db"
                 /\ pc'[t] = "done"
                 /\ cache' = cache
                 /\ map' = map
                 /\ mtx' = mtx)
          /\ (op[t] = "PUT" /\ pc[t] = "done" /\ res[t] = "exception")
             => (/\ pc'[t] \in {"done", "idle"}
                 /\ res'[t] # "PUT OK"
                 /\ (pc'[t] = "idle" => (cache' = cache /\ map' = map)))]_vars

\* C3 witness: a PUT of k -> v has ended with the exception while the cache
\* still holds the other value for k.
C3_Witness ==
    \E t \in Threads :
        /\ pc[t] = "done" /\ op[t] = "PUT" /\ res[t] = "exception"
        /\ CacheValue(key[t]) \in Values \ {value[t]}

\* C4: every entry k -> v of the cache was committed to the table for k at
\* some earlier point, under any interleaving and any database failure.
C4_CacheHoldsCommitted ==
    \A i \in 1 .. Len(cache) :
        <<cache[i].first, cache[i].second>> \in committed

\* C4 witness: after a database failure, the cache holds a value for k that
\* is no longer the one in the table.
C4_Witness ==
    /\ \E t \in Threads : pc[t] = "done" /\ res[t] = "exception"
    /\ \E k \in ReqKeys :
          /\ CacheValue(k) \in Values
          /\ db[k] \in Values \ {CacheValue(k)}

\* C5 as stated: no read is served from the cache a value for a key whose
\* row has already been deleted from the table.
C5_NoHitAfterDbDelete ==
    [][\A t \in Threads :
          (pc[t] = "get_cache" /\ res'[t] = "CACHE HIT")
          => db[key[t]] # NoValue]_vars

\* C5 amended: DELETE removes the row first and the cache entry second.  The
\* step in which db.remove returns deletes the row and leaves the cache as
\* it is (so a concurrent GET can still be served the key from the cache);
\* the handler changes the cache only in its cache.remove step, which comes
\* after it; and right after that step the key is not in the cache.
C5_DeleteOrder ==
    [][\A t \in Threads :
          /\ (pc[t] = "del_db" /\ pc'[t] = "del_lock")
             => (/\ db'[key[t]] = NoValue
                 /\ cache' = cache
                 /\ map' = map)
          /\ (op[t] = "DELETE" /\ pc'[t] # pc[t]
                /\ (cache' # cache \/ map' # map))
             => pc[t] = "del_cache"
          /\ (pc[t] = "del_cache" /\ pc'[t] # "del_cache")
             => (/\ pc'[t] = "done"
                 /\ res'[t] = "DELETE OK"
                 /\ key[t] \notin DOMAIN map'
                 /\ \A i \in 1 .. Len(cache') : cache'[i].first # key[t])]_vars

\* C5 witness: a DELETE has removed the row of a key and has not yet removed
\* its cache entry, and a GET of that key has been answered from the cache.
C5_Witness ==
    \E t, u \in Threads :
        /\ pc[t] \in {"del_lock", "del_cache"}
        /\ db[key[t]] = NoValue
        /\ key[t] \in DOMAIN map
        /\ pc[u] = "done" /\ res[u] = "CACHE HIT" /\ key[u] = key[t]

\* The request being handled, and the one before it, in the sequential
\* client's history.
Cur == hist[Len(hist)]
Prev == hist[Len(hist) - 1]
Prev2 == hist[Len(hist) - 2]

\* C6: a read of k that found k -> v in the table and not in the cache
\* returns v from the table, has counted one miss and no hit, and leaves
\* k -> v in the cache; a read of k right after it is a cache hit on v.
C6_ReadThrough ==
    \A t \in Threads :
        (pc[t] = "done" /\ op[t] = "GET") =>
            /\ (Cur.cached0 = NoValue /\ Cur.stored0 # NoValue)
               => (/\ res[t] = "DB HIT"
                   /\ value[t] = Cur.stored0
                   /\ cache_misses = Cur.misses0 + 1
                   /\ cache_hits = Cur.hits0
                   /\ CacheValue(key[t]) = Cur.stored0)
            /\ (Len(hist) >= 2 /\ Prev.op = "GET" /\ Prev.key = key[t]
                  /\ Prev.res = "DB HIT")
               => (res[t] = "CACHE HIT" /\ value[t] = Prev.value)

\* C6 witness: a read served from the table, then a read of the same key
\* served from the cache.
C6_Witness ==
    \E t \in Threads :
        /\ pc[t] = "done" /\ op[t] = "GET" /\ res[t] = "CACHE HIT"
        /\ Len(hist) >= 2
        /\ Prev.op = "GET" /\ Prev.key = key[t] /\ Prev.res = "DB HIT"
        /\ cache_misses = 1 /\ cache_hits = 1

\* C7: the step of a GET that finds its key in the cache adds one to
\* cache_hits, leaves cache_misses and the table alone, and ends the handler
\* with the cached value, without going to the database.
C7_HitFrame ==
    [][\A t \in Threads :
          (pc[t] = "get_cache" /\ pc'[t] # "get_cache"
              /\ key[t] \in DOMAIN map)
          => (/\ cache_hits' = cache_hits + 1
              /\ cache_misses' = cache_misses
              /\ db' = db
              /\ pc'[t] = "done"
              /\ res'[t] = "CACHE HIT"
              /\ value'[t] = CacheValue(key[t]))]_vars

\* C7 witness: a GET answered from the cache while the table holds another
\* value for the key.
C7_Witness ==
    \E t \in Threads :
        /\ pc[t] = "done" /\ res[t] = "CACHE HIT"
        /\ cache_hits = 1
        /\ db[key[t]] \in Values \ {value[t]}

\* C8: write(k, v), delete(k), read(k), each answered before the next is
\* sent and none failing: the read answers "Not found" and k is neither in
\* the cache nor in the table.
C8_WriteDeleteRead ==
    \A t \in Threads :
        (/\ pc[t] = "done" /\ op[t] = "GET"
         /\ Len(hist) >= 3
         /\ Prev2.op = "PUT" /\ Prev2.res = "PUT OK" /\ Prev2.key = key[t]
         /\ Prev.op = "DELETE" /\ Prev.res = "DELETE OK" /\ Prev.key = key[t])
        => (/\ res[t] = "Not found"
            /\ key[t] \notin DOMAIN map
            /\ key[t] \notin CacheKeys
            /\ db[key[t]] = NoValue)

\* C8 witness: the read of that sequence has been answered.
C8_Witness ==
    \E t \in Threads :
        /\ pc[t] = "done" /\ op[t] = "GET" /\ res[t] = "Not found"
        /\ Len(hist) >= 3
        /\ Prev2.op = "PUT" /\ Prev2.res = "PUT OK" /\ Prev2.key = key[t]
        /\ Prev.op = "DELETE" /\ Prev.res = "DELETE OK" /\ Prev.key = key[t]

\* C11: the hit_rate /stats answers is 100 * h / (h + m) of the h and m it
\* answers, to the six decimals it is printed with, and 0 when h + m = 0; it
\* is 0 for no hit and no miss, 100 for hits without a miss, 50 for one hit
\* and one miss; and no step of the handler changes either counter.
C11_HitRate ==
    [][\A t \in Threads :
          /\ (op[t] = "STATS" /\ pc'[t] # pc[t])
             => (cache_hits' = cache_hits /\ cache_misses' = cache_misses)
          /\ (pc[t] = "stats_m" /\ pc'[t] = "done")
             => LET h == stat'[t].h
                    m == stat'[t].m
                    r == stat'[t].hit_rate
                IN  /\ h = stat[t].h
                    /\ m = cache_misses
                    /\ (h + m = 0) => r = 0
                    /\ (h + m > 0) =>
                          /\ 2 * (r * (h + m) - 100 * Micro * h) <= h + m
                          /\ 2 * (100 * Micro * h - r * (h + m)) <= h + m
                    /\ (m = 0 /\ h > 0) => r = 100 * Micro
                    /\ (h = 1 /\ m = 1) => r = 50 * Micro]_vars

\* C11 witness: /stats has answered one hit, one miss and 50 percent.
C11_Witness ==
    \E t \in Threads :
        /\ pc[t] = "done" /\ res[t] = "STATS"
        /\ stat[t] = [h |-> 1, m |-> 1, hit_rate |-> 50 * Micro]

\* The positions of a handler inside a database call and inside the body of
\* a cache operation.
InDbCall(t) == pc[t] \in {"put_db", "get_db", "del_db"}
InCacheBody(t) == pc[t] \in {"put_cache", "get_cache", "fill_cache", "del_cache"}

\* C12: a handler that is in a database call does not own the cache mutex;
\* the mutex is owned only by a thread inside the body of a cache operation,
\* so a thread waiting for it never waits for a database call.
C12_NoDbCallUnderLock ==
    /\ \A t \in Threads : InDbCall(t) => mtx # t
    /\ mtx # NoThread => (mtx \in Threads /\ InCacheBody(mtx))

\* C12 witness: one handler is in db.put while the other owns the mutex
\* inside cache.get.
C12_Witness ==
    \E t, u \in Threads :
        /\ pc[t] = "put_db"
        /\ pc[u] = "get_cache"
        /\ mtx = u

\* C13: the step in which db.get ends a GET answers "Not found" only when
\* the key has no row; when db.get throws, the outcome is the exception, the
\* cache is left as it was by that step, and the handler ends there, without
\* a fill.
C13_ReadErrorSurfaced ==
    [][\A t \in Threads :
          /\ (pc[t] = "get_db" /\ pc'[t] = "done")
             => (/\ res'[t] \in {"Not found", "exception"}
                 /\ res'[t] = "Not found" => db[key[t]] = NoValue
                 /\ cache' = cache
                 /\ map' = map)
          /\ (op[t] = "GET" /\ pc[t] = "done" /\ res[t] = "exception")
             => (/\ pc'[t] \in {"done", "idle"}
                 /\ (pc'[t] = "idle" => (cache' = cache /\ map' = map)))]_vars

\* C13 witness: a GET of a key that has a row and is not cached has ended
\* with the exception.
C13_Witness ==
    \E t \in Threads :
        /\ pc[t] = "done" /\ op[t] = "GET" /\ res[t] = "exception"
        /\ db[key[t]] # NoValue
        /\ key[t] \notin DOMAIN map

\* C14: when db.remove throws in the DELETE handler, the outcome is the
\* exception, that step leaves the cache as it was, and the handler never
\* goes on to cache.remove or "DELETE OK"; a DELETE goes on to cache.remove
\* only when its db.remove has left no row.
C14_FailedDeleteLeavesCache ==
    [][\A t \in Threads :
          /\ (pc[t] = "del_db" /\ pc'[t] # "del_db")
             => (\/ /\ pc'[t] = "del_lock"
                    /\ db'[key[t]] = NoValue
                 \/ /\ pc'[t] = "done"
                    /\ res'[t] = "exception"
                    /\ cache' = cache
                    /\ map' = map
                    /\ mtx' = mtx)
          /\ (op[t] = "DELETE" /\ pc[t] = "done" /\ res[t] = "exception")
             => (/\ pc'[t] \in {"done", "idle"}
                 /\ res'[t] # "DELETE OK"
                 /\ (pc'[t] = "idle" => (cache' = cache /\ map' = map)))]_vars

\* C14 witness: a DELETE of a cached key has ended with the exception and
\* the key is still cached.
C14_Witness ==
    \E t \in Threads :
        /\ pc[t] = "done" /\ op[t] = "DELETE" /\ res[t] = "exception"
        /\ key[t] \in DOMAIN map
        /\ CacheValue(key[t]) \in Values

\* The calls that use a key: a put, or a get that hits.
Uses(k) ==
    {i \in 1 .. Len(calls) :
        /\ calls[i].key = k
        /\ \/ calls[i].op = "put"
           \/ calls[i].op = "get" /\ calls[i].ret}

\* index of the most recent use of k, 0 when it was never used
LastUse(k) ==
    IF Uses(k) = {} THEN 0
    ELSE CHOOSE i \in Uses(k) : \A j \in Uses(k) : j <= i

\* the call a step of the single caller appends
NewCall == calls'[Len(calls')]

\* C15: a put of a key that is cached evicts nothing; a put of a new key
\* into a cache that is not full evicts nothing; a put of a new key into a
\* full cache evicts exactly one entry, and no other cached key was used
\* (put, or got with a hit) longer ago than the evicted one.
C15_EvictsLeastRecentlyUsed ==
    [][(Len(calls') = Len(calls) + 1 /\ NewCall.op = "put") =>
          LET k == NewCall.key
          IN  IF k \in CacheKeys
              THEN CacheKeys' = CacheKeys
              ELSE IF Len(cache) < cap
                   THEN CacheKeys' = CacheKeys \cup {k}
                   ELSE \E victim \in CacheKeys :
                           /\ CacheKeys' = (CacheKeys \ {victim}) \cup {k}
                           /\ \A j \in CacheKeys :
                                 LastUse(victim) <= LastUse(j)]_vars

\* C15 witness: capacity 2; put a, put b, put c (a is evicted), get b
\* (hit), then a put of a key that is not cached evicts c and leaves b and
\* the new key.
C15_Witness ==
    /\ cap = 2
    /\ Len(calls) = 5
    /\ <<calls[1].op, calls[1].key>> = <<"put", "a">>
    /\ <<calls[2].op, calls[2].key>> = <<"put", "b">>
    /\ <<calls[3].op, calls[3].key>> = <<"put", "c">>
    /\ <<calls[4].op, calls[4].key, calls[4].ret>> = <<"get", "b", TRUE>>
    /\ <<calls[5].op, calls[5].key>> = <<"put", "a">>
    /\ CacheKeys = {"a", "b"}
    /\ DOMAIN map = {"a", "b"}

\* The list holds each key once, the index holds exactly the keys of the
\* list, and the index entry of a key refers to the list entry of that key.
IndexMatchesList ==
    /\ \A i, j \in 1 .. Len(cache) : cache[i].first = cache[j].first => i = j
    /\ DOMAIN map = CacheKeys
    /\ \A k \in DOMAIN map :
          /\ HasNode(cache, map[k])
          /\ cache[NodePos(cache, map[k])].first = k

\* C16: whenever the mutex is free the index matches the list; and list and
\* index change only in a step of the thread that owns the mutex, which
\* releases it in that same step.
C16_IndexMatchesList ==
    /\ [](mtx = NoThread => IndexMatchesList)
    /\ [][(cache' # cache \/ map' # map) =>
             /\ mtx \in Threads
             /\ InCacheBody(mtx)
             /\ pc'[mtx] # pc[mtx]
             /\ mtx' = NoThread]_vars

\* C16 witness: capacity 1, two PUTs of different keys are both answered,
\* so one entry was evicted, and the mutex is free.
C16_Witness ==
    /\ cap = 1
    /\ mtx = NoThread
    /\ Len(cache) = 1
    /\ \E t, u \in Threads :
          /\ pc[t] = "done" /\ res[t] = "PUT OK" /\ key[t] = "a"
          /\ pc[u] = "done" /\ res[u] = "PUT OK" /\ key[u] = "b"

\* x is in front of y in the list
InFrontOf(c, x, y) ==
    \E i, j \in 1 .. Len(c) : i < j /\ c[i].first = x /\ c[j].first = y

\* C17: a cache operation leaves the order of any two entries that are
\* cached before and after it as it was, unless the operation is a put or a
\* get-hit on one of the two; a get-hit moves the entry it reads to the
\* front, returns its value and changes no key and no value; a get-miss
\* changes nothing.
C17_OrderFrame ==
    [][Len(calls') = Len(calls) + 1 =>
          LET k == NewCall.key
              hit == NewCall.op = "get" /\ NewCall.ret
              miss == NewCall.op = "get" /\ ~NewCall.ret
              used == NewCall.op = "put" \/ hit
          IN  /\ \A x, y \in CacheKeys \cap CacheKeys' :
                    (x # y /\ ~(used /\ k \in {x, y})) =>
                        (InFrontOf(cache, x, y) <=> InFrontOf(cache', x, y))
              /\ hit => /\ Len(cache') = Len(cache)
                        /\ CacheKeys' = CacheKeys
                        /\ cache'[1].first = k
                        /\ NewCall.value = CacheValue(k)
                        /\ \A j \in CacheKeys : CacheValue(j)' = CacheValue(j)
              /\ miss => (cache' = cache /\ map' = map)]_vars

\* C17 witness: capacity 3; put a, put b, put c, then a get of b hits: b is
\* in front, and c is still in front of a.
C17_Witness ==
    /\ cap = 3
    /\ Len(calls) = 4
    /\ <<calls[1].op, calls[1].key>> = <<"put", "a">>
    /\ <<calls[2].op, calls[2].key>> = <<"put", "b">>
    /\ <<calls[3].op, calls[3].key>> = <<"put", "c">>
    /\ <<calls[4].op, calls[4].key, calls[4].ret>> = <<"get", "b", TRUE>>
    /\ <<cache[1].first, cache[2].first, cache[3].first>> = <<"b", "c", "a">>

\* C18: the cache write of a PUT stores the value of its own request,
\* whatever row the database holds by then, and leaves the database alone;
\* so when two PUTs of one key with different values are both answered, the
\* cache and the database each hold the value of one of the two, and
\* nothing makes it the same one.  (The state in which they differ is
\* C18_Witness.)
C18_WritersMayDiverge ==
    /\ [][\A t \in Threads :
             (pc[t] = "put_cache" /\ pc'[t] = "done") =>
                 /\ cache'[1].first = key[t]
                 /\ cache'[1].second = value[t]
                 /\ db' = db
                 /\ res'[t] = "PUT OK"]_vars
    /\ [](\A t, u \in Threads :
             (/\ t # u
              /\ pc[t] = "done" /\ res[t] = "PUT OK"
              /\ pc[u] = "done" /\ res[u] = "PUT OK"
              /\ key[t] = key[u]
              /\ value[t] # value[u]) =>
                 /\ cache[1].first = key[t]
                 /\ cache[1].second \in {value[t], value[u]}
                 /\ db[key[t]] \in {value[t], value[u]})

\* C18 witness: two PUTs of one key with different values are both
\* answered; the cache holds the value of one and the database the value of
\* the other.
C18_Witness ==
    \E t, u \in Threads :
        /\ t # u
        /\ pc[t] = "done" /\ res[t] = "PUT OK"
        /\ pc[u] = "done" /\ res[u] = "PUT OK"
        /\ key[t] = key[u]
        /\ value[t] # value[u]
        /\ CacheValue(key[t]) = value[t]
        /\ db[key[t]] = value[u]

---------------------------------------------------------------------------
\* The handlers, concurrently, with a database that never fails.

NextNoFail ==
    \E t \in Threads :
        \/ \E k \in ReqKeys, v \in Values : StartPut(t, k, v)
        \/ \E k \in ReqKeys : StartGet(t, k)
        \/ \E k \in ReqKeys : StartDelete(t, k)
        \/ PutDb(t) \/ PutLock(t) \/ PutCache(t)
        \/ GetLock(t) \/ GetCache(t)
        \/ GetDbFound(t) \/ GetDbNotFound(t)
        \/ FillLock(t) \/ FillCache(t)
        \/ DeleteDb(t) \/ DeleteLock(t) \/ DeleteCache(t)
        \/ Return(t)

SpecNoFail == Init /\ [][NextNoFail]_vars

\* C19: in every state in which no request is in progress, a key that is in
\* the cache has a row in the database.
C19_NeverCachedWhileAbsent ==
    AllIdle => \A k \in Keys : k \in CacheKeys => db[k] # NoValue

---------------------------------------------------------------------------
\* The handlers under a fair scheduler: a database call returns or throws, a
\* thread inside a cache operation finishes it, a response is sent, and a
\* thread that finds the mutex free again and again gets it.

DbCall(t) ==
    \/ PutDb(t) \/ PutDbFail(t)
    \/ GetDbFound(t) \/ GetDbNotFound(t) \/ GetDbFail(t)
    \/ DeleteDb(t) \/ DeleteDbFail(t)

CacheBody(t) == PutCache(t) \/ GetCache(t) \/ FillCache(t) \/ DeleteCache(t)

LockStep(t) == PutLock(t) \/ GetLock(t) \/ FillLock(t) \/ DeleteLock(t)

Fairness ==
    \A t \in Threads :
        /\ WF_vars(DbCall(t))
        /\ WF_vars(CacheBody(t))
        /\ WF_vars(Return(t))
        /\ SF_vars(LockStep(t))

\* The requests of the fair specification: the progress of a handler does
\* not depend on the key or the value it carries, so one value is enough.
LiveKeys == {"a", "b"}
LiveValues == {"v1"}

NextLive ==
    \E t \in Threads :
        \/ \E k \in LiveKeys, v \in LiveValues : StartPut(t, k, v)
        \/ \E k \in LiveKeys : StartGet(t, k)
        \/ \E k \in LiveKeys : StartDelete(t, k)
        \/ DbCall(t) \/ LockStep(t) \/ CacheBody(t)
        \/ Return(t)

SpecLive == Init /\ [][NextLive]_vars /\ Fairness

\* C20: every handler that has started reaches its end, with its answer or
\* with the exception, and a thread that owns the mutex gives it up.
C20_HandlersComplete ==
    \A t \in Threads :
        /\ (pc[t] # "idle") ~> (pc[t] = "done")
        /\ (mtx = t) ~> (mtx # t)

\* C20 witness: a handler waits for the mutex while the other thread owns
\* it.
C20_Witness ==
    \E t, u \in Threads :
        /\ pc[t] \in {"put_lock", "get_lock", "fill_lock", "del_lock"}
        /\ mtx = u
        /\ t # u

====
